---- MODULE Spec2Model ----
(***************************************************************************)
(* Model of the DynamoDB migration utility (index.js): the dispatcher      *)
(* `run`, the `init` pipeline with its per-table request batches, and the  *)
(* remote accounts the requests act on.  One action is one turn of the     *)
(* Node.js event loop: either a step of the program up to its next await,  *)
(* or the completion of one outstanding remote request.                    *)
(***************************************************************************)
EXTENDS Integers, Sequences, FiniteSets, TLC

VARIABLES
    operation,        \* options.operation / event.operation
    sourceTables,     \* source account: table name -> shape of its description
    destTables,       \* destination account: names of the tables that exist
    pitrEnabled,      \* source account: tables with PITR enabled
    streamEnabled,    \* source account: tables with a stream enabled
    s3Objects,        \* destination account: uploaded objects
    glueJobs,         \* destination account: registered jobs
    pc,               \* the await at which init is suspended
    single,           \* state of the three single requests
    req,              \* state of every per-table request, by stage
    tableNames,       \* const tableNames   (index.js:87)
    described,        \* values the describeTable promises resolved with
    tables,           \* const tables       (index.js:119)
    heap,             \* the nested ProvisionedThroughput objects, by table
    destTableNames,   \* const destTableNames (index.js:185)
    sent,             \* parameters of the requests issued, by stage and table
    errors,           \* messages passed to logger.error
    invoked,          \* procedure the dispatcher called
    runPromise,       \* promise returned by run
    initPromise,      \* promise returned by scripts.init
    exited,           \* the process was ended by an unhandled rejection
    previous          \* what the run before this one did, if there was one

vars == <<operation, sourceTables, destTables, pitrEnabled, streamEnabled,
          s3Objects, glueJobs, pc, single, req, tableNames, described, tables,
          heap, destTableNames, sent, errors, invoked, runPromise, initPromise,
          exited, previous>>

----------------------------------------------------------------------------
(* Bounds and input domains *)

MaxTables == 2

Names == {"Orders", "Users", "orders"}

NameOrder == <<"Orders", "Users", "orders">>

DestPool == {"Users", "orders"}

Shapes == {"provisioned", "streamed", "ondemand"}

Operations == {"init", "enable", "disable", "toString", "constructor",
               "hasOwnProperty", "__proto__"}

Restrict(f, S) == [x \in S |-> f[x]]

Listing(S) == SelectSeq(NameOrder, LAMBDA n : n \in S)

Range(s) == {s[i] : i \in DOMAIN s}

\* the names of a sequence of table descriptors
NamesOf(ts) == {ts[i].name : i \in DOMAIN ts}

----------------------------------------------------------------------------
(* Options *)

options == [region         |-> "eu-west-1",
            role           |-> "arn:aws:iam::222:role/dest",
            exports_bucket |-> "exports-bkt",
            glue_bucket    |-> "glue-bkt",
            glue_role      |-> "arn:aws:iam::222:role/glue"]

----------------------------------------------------------------------------
(* The table descriptions the source account returns from describeTable.   *)
(* The nested ProvisionedThroughput object is kept apart from the          *)
(* top-level fields, as it is a separate object on the JavaScript heap.    *)

Attr(n, t) == [AttributeName |-> n, AttributeType |-> t]

Key(n, t) == [AttributeName |-> n, KeyType |-> t]

BaseFields(name) ==
    [TableName        |-> name,
     TableStatus      |-> "ACTIVE",
     CreationDateTime |-> 1600000000,
     ItemCount        |-> 42,
     TableSizeBytes   |-> 4096,
     TableArn         |-> "arn:aws:dynamodb:eu-west-1:111:table/" \o name,
     TableId          |-> "id-" \o name]

SourceFields(name, shape) ==
    CASE shape = "provisioned" ->
           BaseFields(name) @@
           [AttributeDefinitions |-> <<Attr("id", "S"), Attr("amount", "N")>>,
            KeySchema |-> <<Key("id", "HASH"), Key("amount", "RANGE")>>]
      [] shape = "streamed" ->
           BaseFields(name) @@
           [AttributeDefinitions |-> <<Attr("flag", "BOOL"), Attr("blob", "B")>>,
            KeySchema |-> <<Key("flag", "HASH"), Key("blob", "RANGE")>>,
            LatestStreamArn |-> "arn:aws:dynamodb:eu-west-1:111:table/"
                                  \o name \o "/stream/1",
            LatestStreamLabel |-> "1",
            StreamSpecification |-> [StreamEnabled |-> TRUE,
                                     StreamViewType |-> "NEW_IMAGE"]]
      [] shape = "ondemand" ->
           BaseFields(name) @@
           [AttributeDefinitions |-> <<Attr("pk", "S")>>,
            KeySchema |-> <<Key("pk", "HASH")>>,
            BillingModeSummary |-> [BillingMode |-> "PAY_PER_REQUEST"]]

SourceThroughput(shape) ==
    CASE shape = "provisioned" ->
           [ReadCapacityUnits |-> 5, WriteCapacityUnits |-> 5,
            NumberOfDecreasesToday |-> 0]
      [] shape = "streamed" ->
           [ReadCapacityUnits |-> 10, WriteCapacityUnits |-> 2,
            NumberOfDecreasesToday |-> 1,
            LastDecreaseDateTime |-> 1600000500,
            LastIncreaseDateTime |-> 1600000100]
      [] shape = "ondemand" ->
           [ReadCapacityUnits |-> 0, WriteCapacityUnits |-> 0,
            NumberOfDecreasesToday |-> 0]

\* A reference to the nested object of table `name`
Ref(name) == [ref |-> name]

\* data.Table as it sits in memory: top-level fields, the nested one by reference
TableConfig(name, shape) ==
    SourceFields(name, shape) @@ [ProvisionedThroughput |-> Ref(name)]

\* An object with its nested ProvisionedThroughput object written out
Deref(obj, h) ==
    [f \in DOMAIN obj |->
        IF f = "ProvisionedThroughput" THEN h[obj[f].ref] ELSE obj[f]]

----------------------------------------------------------------------------
(* Schema transform for re-creation (index.js:208-221) *)

DeletedFields ==
    {"CreationDateTime", "ItemCount", "LastDecreaseDateTime",
     "LatestStreamArn", "LatestStreamLabel", "NumberOfDecreasesToday",
     "TableArn", "TableId", "TableSizeBytes", "TableStatus"}

DeletedThroughputFields == {"LastDecreaseDateTime", "NumberOfDecreasesToday"}

\* Object.assign({ TableName: tableName }, table.config): a shallow copy, so
\* the copy's ProvisionedThroughput is the reference held by table.config
ObjectAssign(target, source) ==
    [f \in DOMAIN target \cup DOMAIN source |->
        IF f \in DOMAIN source THEN source[f] ELSE target[f]]

\* CreateTableParams with `delete params.TableArn` left out
CreateTableParamsKeepArn(table) ==
    LET assigned == ObjectAssign([TableName |-> table.name], table.config)
    IN  Restrict(assigned, DOMAIN assigned \ (DeletedFields \ {"TableArn"}))

\* params after the ten top-level deletes
CreateTableParams(table) ==
    LET assigned == ObjectAssign([TableName |-> table.name], table.config)
    IN  Restrict(assigned, DOMAIN assigned \ DeletedFields)

\* the heap after `delete params.ProvisionedThroughput.<field>` for `table`
DeleteThroughputFields(h, table) ==
    LET r == CreateTableParams(table)["ProvisionedThroughput"].ref
    IN  [h EXCEPT ![r] = Restrict(h[r], DOMAIN h[r] \ DeletedThroughputFields)]

----------------------------------------------------------------------------
(* ETL script renderer (index.js:250-289) *)

\* glueType with the BOOL case left out
glueTypeNoBool(type) ==
    CASE type = "N"    -> "long"
      [] type = "S"    -> "string"
      [] OTHER         -> "string"

glueType(type) ==
    CASE type = "N"    -> "long"
      [] type = "S"    -> "string"
      [] type = "BOOL" -> "boolean"
      [] OTHER         -> "string"

MappingEntry(attribute) ==
    LET name == attribute.AttributeName
        type == attribute.AttributeType
    IN  "(\"Item." \o name \o "." \o type \o "\", \"string\", \""
          \o name \o "\", \"" \o glueType(type) \o "\")"

Mappings(table) ==
    [i \in DOMAIN table.config.AttributeDefinitions |->
        MappingEntry(table.config.AttributeDefinitions[i])]

RECURSIVE Join(_, _)
Join(s, sep) ==
    IF Len(s) = 0 THEN ""
    ELSE IF Len(s) = 1 THEN s[1]
    ELSE s[1] \o sep \o Join(Tail(s), sep)

\* the values substituted for the template's placeholders
RenderScript(table) ==
    [REGION         |-> options.region,
     EXPORTS_BUCKET |-> options.exports_bucket \o "/exports/" \o table.name \o "/",
     TABLE          |-> table.name,
     MAPPINGS       |-> Join(Mappings(table), ",")]

ScriptKey(tableName) == "glue-script-" \o tableName \o ".py"

PutObjectParams(table) ==
    [Body   |-> RenderScript(table),
     Bucket |-> options.glue_bucket,
     Key    |-> ScriptKey(table.name)]

\* ScriptLocation naming the exports bucket instead of the script bucket
ScriptLocationExportsBucket(tableName) ==
    "s3://" \o options.exports_bucket \o "/glue-script-" \o tableName \o ".py"

ScriptLocation(tableName) ==
    "s3://" \o options.glue_bucket \o "/glue-script-" \o tableName \o ".py"

CreateJobParams(table) ==
    [Name        |-> "ddb-job-" \o table.name,
     Role        |-> options.glue_role,
     Command     |-> [Name           |-> "glueetl",
                      PythonVersion  |-> "3",
                      ScriptLocation |-> ScriptLocation(table.name)],
     Description |-> "Glue job for " \o table.name,
     MaxRetries  |-> 0,
     NumberOfWorkers |-> 10,
     WorkerType  |-> "G.1X"]

----------------------------------------------------------------------------
(* Dispatcher lookup (index.js:75-77, 345-347) *)

\* properties assigned on the scripts object
OwnScripts == {"init"}

\* `scripts` is an object literal: a lookup that misses falls through to the
\* functions of Object.prototype
ObjectPrototypeFunctions ==
    {"constructor", "toString", "toLocaleString", "valueOf", "hasOwnProperty",
     "isPrototypeOf", "propertyIsEnumerable", "__defineGetter__",
     "__defineSetter__", "__lookupGetter__", "__lookupSetter__"}

\* those that throw a TypeError when called as script(undefined)
ThrowingPrototypeFunctions ==
    {"toLocaleString", "valueOf", "hasOwnProperty", "propertyIsEnumerable",
     "__defineGetter__", "__defineSetter__", "__lookupGetter__",
     "__lookupSetter__"}

\* typeof scripts[op] === 'function'
IsFunction(op) == op \in OwnScripts \cup ObjectPrototypeFunctions

----------------------------------------------------------------------------
(* Requests and promises *)

Stages == {"describeTable", "updateContinuousBackups", "updateTable",
           "createTable", "putObject", "createJob"}

Singles == {"assumeRole", "listTables", "listDestTables"}

EmptyMap == [x \in {} |-> x]

Issued(stage) == {t \in Names : req[stage][t] # "none"}

Pending(stage) == {t \in Names : req[stage][t] = "pending"}

\* the arrays handed to Promise.all
describeTablePromises == Issued("describeTable")

enablePitrPromises == Issued("updateContinuousBackups")

updateTablePromises == Issued("updateTable")

createTablePromises == Issued("createTable")

\* the upload promises are created but never pushed (index.js:241-299)
createGlueScriptPromises == {}

createJobPromises == Issued("createJob")

PromiseArray(stage) ==
    CASE stage = "describeTable"           -> describeTablePromises
      [] stage = "updateContinuousBackups" -> enablePitrPromises
      [] stage = "updateTable"             -> updateTablePromises
      [] stage = "createTable"             -> createTablePromises
      [] stage = "putObject"               -> createGlueScriptPromises
      [] stage = "createJob"               -> createJobPromises

\* Promise.all(array): rejected by the first rejection, fulfilled when all are
PromiseAll(stage) ==
    IF \E t \in PromiseArray(stage) : req[stage][t] = "failed" THEN "rejected"
    ELSE IF \A t \in PromiseArray(stage) : req[stage][t] = "ok" THEN "fulfilled"
    ELSE "pending"

\* init can resume from its await: it runs before any further completion
Resumable ==
    /\ ~exited
    /\ pc \in Stages
    /\ PromiseAll(pc) = "fulfilled"

\* a rejected promise nobody handles: init's (run neither awaits nor catches
\* it), run's own at the command line, and the upload promises
UnhandledRejection ==
    \/ initPromise.state = "rejected"
    \/ runPromise = "rejected"
    \/ \E t \in Names : req["putObject"][t] = "failed"

Log(msg) == IF exited THEN errors ELSE errors \cup {msg}

IssueAll(stage, ts) ==
    [req EXCEPT ![stage] = [t \in Names |-> IF t \in ts THEN "pending" ELSE @[t]]]

----------------------------------------------------------------------------
(* Initial state *)

\* this process is the first run
NoPrevious == [ran |-> FALSE, completedCreate |-> FALSE, created |-> {}]

Init ==
    /\ operation \in Operations
    /\ \E S \in SUBSET Names :
          /\ Cardinality(S) <= MaxTables
          /\ sourceTables \in [S -> Shapes]
    /\ destTables \in SUBSET DestPool
    /\ pitrEnabled = {}
    /\ streamEnabled = {}
    /\ s3Objects = {}
    /\ glueJobs = {}
    /\ pc = "start"
    /\ single = [c \in Singles |-> "none"]
    /\ req = [s \in Stages |-> [t \in Names |-> "none"]]
    /\ tableNames = <<>>
    /\ described = EmptyMap
    /\ tables = <<>>
    /\ heap = EmptyMap
    /\ destTableNames = <<>>
    /\ sent = [s \in {"createTable", "putObject", "createJob"} |-> <<>>]
    /\ errors = {}
    /\ invoked = "none"
    /\ runPromise = "none"
    /\ initPromise = [state |-> "none", reason |-> ""]
    /\ exited = FALSE
    /\ previous = NoPrevious

remote == <<sourceTables, destTables, pitrEnabled, streamEnabled, s3Objects, glueJobs>>

memory == <<tableNames, described, tables, heap, destTableNames>>

----------------------------------------------------------------------------
(* Dispatcher: run (index.js:343-353) *)

\* scripts.init up to its first await: getCrossAccountCredentials issues
\* sts.assumeRole; run does not await the returned promise
RunInit ==
    /\ pc = "start"
    /\ operation \in OwnScripts
    /\ invoked' = "init"
    /\ single' = [single EXCEPT !["assumeRole"] = "pending"]
    /\ initPromise' = [state |-> "pending", reason |-> ""]
    /\ runPromise' = "fulfilled"
    /\ pc' = "assumeRole"
    /\ UNCHANGED <<operation, previous, remote, memory, req, sent, errors, exited>>

\* the name resolves to an inherited function, which is called
RunInherited ==
    /\ pc = "start"
    /\ operation \notin OwnScripts
    /\ IsFunction(operation)
    /\ invoked' = operation
    /\ runPromise' = IF operation \in ThrowingPrototypeFunctions
                     THEN "rejected" ELSE "fulfilled"
    /\ pc' = "idle"
    /\ UNCHANGED <<operation, previous, remote, memory, single, req, sent, errors,
                   initPromise, exited>>

RunInvalid ==
    /\ pc = "start"
    /\ ~IsFunction(operation)
    /\ errors' = Log("The specified operation (" \o operation \o ") is not valid.")
    /\ runPromise' = "fulfilled"
    /\ pc' = "idle"
    /\ UNCHANGED <<operation, previous, remote, memory, single, req, sent, invoked,
                   initPromise, exited>>

----------------------------------------------------------------------------
(* init: credentials and table discovery (index.js:77-119) *)

\* a rejection reaching the await init is suspended at
RejectInit(error) ==
    /\ pc' = "failed"
    /\ initPromise' = [state |-> "rejected", reason |-> error]

AssumeRoleOk ==
    /\ single["assumeRole"] = "pending"
    /\ IF exited
       THEN /\ single' = [single EXCEPT !["assumeRole"] = "ok"]
            /\ UNCHANGED pc
       ELSE /\ single' = [single EXCEPT !["assumeRole"] = "ok",
                                        !["listTables"] = "pending"]
            /\ pc' = "listTables"
    /\ UNCHANGED <<operation, previous, remote, memory, req, sent, errors, invoked,
                   runPromise, initPromise, exited>>

\* AssumeRoleFail going on to list the source tables
AssumeRoleFailContinues ==
    /\ single["assumeRole"] = "pending"
    /\ single' = [single EXCEPT !["assumeRole"] = "failed",
                                !["listTables"] = "pending"]
    /\ pc' = "listTables"
    /\ UNCHANGED <<operation, previous, remote, memory, req, sent, errors, invoked,
                   runPromise, initPromise, exited>>

AssumeRoleFail ==
    /\ single["assumeRole"] = "pending"
    /\ single' = [single EXCEPT !["assumeRole"] = "failed"]
    /\ IF exited THEN UNCHANGED <<pc, initPromise>> ELSE RejectInit("assumeRole")
    /\ UNCHANGED <<operation, previous, remote, memory, req, sent, errors, invoked,
                   runPromise, exited>>

\* tableNames resolves; the forEach issues one describeTable per name
ListTablesOk ==
    /\ single["listTables"] = "pending"
    /\ single' = [single EXCEPT !["listTables"] = "ok"]
    /\ IF exited
       THEN UNCHANGED <<tableNames, req, pc>>
       ELSE /\ tableNames' = Listing(DOMAIN sourceTables)
            /\ req' = IssueAll("describeTable", DOMAIN sourceTables)
            /\ pc' = "describeTable"
    /\ UNCHANGED <<operation, previous, remote, described, tables, heap, destTableNames,
                   sent, errors, invoked, runPromise, initPromise, exited>>

ListTablesFail ==
    /\ single["listTables"] = "pending"
    /\ single' = [single EXCEPT !["listTables"] = "failed"]
    /\ errors' = Log("Failed to retrieve tables")
    /\ IF exited THEN UNCHANGED <<pc, initPromise>> ELSE RejectInit("listTables")
    /\ UNCHANGED <<operation, previous, remote, memory, req, sent, invoked, runPromise,
                   exited>>

\* the failure of one per-table request: logged, and it rejects init when
\* init awaits a Promise.all that holds the request's promise
FailRequest(stage, t, msg) ==
    /\ req[stage][t] = "pending"
    /\ ~Resumable
    /\ req' = [req EXCEPT ![stage][t] = "failed"]
    /\ errors' = Log(msg)
    /\ IF ~exited /\ pc = stage /\ t \in PromiseArray(stage)
       THEN RejectInit(stage \o " " \o t)
       ELSE UNCHANGED <<pc, initPromise>>

SucceedRequest(stage, t) ==
    /\ req[stage][t] = "pending"
    /\ ~Resumable
    /\ req' = [req EXCEPT ![stage][t] = "ok"]

DescribeTableOk(t) ==
    /\ SucceedRequest("describeTable", t)
    /\ IF exited
       THEN UNCHANGED <<described, heap>>
       ELSE /\ described' = (t :> [name |-> t,
                                   config |-> TableConfig(t, sourceTables[t])])
                               @@ described
            /\ heap' = (t :> SourceThroughput(sourceTables[t])) @@ heap
    /\ UNCHANGED <<operation, previous, remote, pc, single, tableNames, tables,
                   destTableNames, sent, errors, invoked, runPromise,
                   initPromise, exited>>

DescribeTableFail(t) ==
    /\ FailRequest("describeTable", t, "Failed to describe table " \o t)
    /\ UNCHANGED <<operation, previous, remote, memory, single, sent, invoked,
                   runPromise, exited>>

----------------------------------------------------------------------------
(* init: PITR and streams on the source tables (index.js:119-182) *)

\* tables = await Promise.all(describeTablePromises), then one
\* updateContinuousBackups per table
EnablePitrStage ==
    /\ pc = "describeTable"
    /\ Resumable
    /\ tables' = [i \in DOMAIN tableNames |-> described[tableNames[i]]]
    /\ req' = IssueAll("updateContinuousBackups", NamesOf(tables'))
    /\ pc' = "updateContinuousBackups"
    /\ UNCHANGED <<operation, previous, remote, single, tableNames, described, heap,
                   destTableNames, sent, errors, invoked, runPromise,
                   initPromise, exited>>

UpdateContinuousBackupsOk(t) ==
    /\ SucceedRequest("updateContinuousBackups", t)
    /\ pitrEnabled' = pitrEnabled \cup {t}
    /\ UNCHANGED <<operation, previous, sourceTables, destTables, streamEnabled,
                   s3Objects, glueJobs, pc, single, memory, sent, errors,
                   invoked, runPromise, initPromise, exited>>

UpdateContinuousBackupsFail(t) ==
    /\ FailRequest("updateContinuousBackups", t,
                   "Failed to enable PITR for table " \o t)
    /\ UNCHANGED <<operation, previous, remote, memory, single, sent, invoked,
                   runPromise, exited>>

EnableStreamsStage ==
    /\ pc = "updateContinuousBackups"
    /\ Resumable
    /\ req' = IssueAll("updateTable", NamesOf(tables))
    /\ pc' = "updateTable"
    /\ UNCHANGED <<operation, previous, remote, single, memory, sent, errors, invoked,
                   runPromise, initPromise, exited>>

UpdateTableOk(t) ==
    /\ SucceedRequest("updateTable", t)
    /\ streamEnabled' = streamEnabled \cup {t}
    /\ UNCHANGED <<operation, previous, sourceTables, destTables, pitrEnabled,
                   s3Objects, glueJobs, pc, single, memory, sent, errors,
                   invoked, runPromise, initPromise, exited>>

UpdateTableFail(t) ==
    /\ FailRequest("updateTable", t,
                   "Failed to enable DynamoDB streams for table " \o t)
    /\ UNCHANGED <<operation, previous, remote, memory, single, sent, invoked,
                   runPromise, exited>>

----------------------------------------------------------------------------
(* init: table replication (index.js:184-238) *)

ListDestTablesStage ==
    /\ pc = "updateTable"
    /\ Resumable
    /\ single' = [single EXCEPT !["listDestTables"] = "pending"]
    /\ pc' = "listDestTables"
    /\ UNCHANGED <<operation, previous, remote, req, memory, sent, errors, invoked,
                   runPromise, initPromise, exited>>

LowerCase(n) ==
    CASE n = "Orders" -> "orders"
      [] n = "Users"  -> "users"
      [] OTHER        -> n

\* AlreadyExists comparing names without regard to case
AlreadyExistsIgnoreCase(listing, tableName) ==
    \E i \in DOMAIN listing : LowerCase(listing[i]) = LowerCase(tableName)

\* destTableNames.indexOf(tableName) !== -1
AlreadyExists(listing, tableName) == \E i \in DOMAIN listing : listing[i] = tableName

\* ToCreate without the check for an existing table
ToCreateAll(listing) == tables

\* the tables the forEach does not skip, in order
ToCreate(listing) ==
    SelectSeq(tables, LAMBDA table : ~AlreadyExists(listing, table.name))

\* the heap after the nested deletes of every table of `ts`
RECURSIVE DeleteAllThroughputFields(_, _)
DeleteAllThroughputFields(h, ts) ==
    IF ts = <<>> THEN h
    ELSE DeleteAllThroughputFields(DeleteThroughputFields(h, Head(ts)), Tail(ts))

\* destTableNames resolves; the forEach builds and issues one createTable
\* per table that is not listed
ListDestTablesOk ==
    /\ single["listDestTables"] = "pending"
    /\ single' = [single EXCEPT !["listDestTables"] = "ok"]
    /\ IF exited
       THEN UNCHANGED <<destTableNames, heap, sent, req, pc>>
       ELSE LET listing == Listing(destTables)
                ts == ToCreate(listing)
            IN  /\ destTableNames' = listing
                /\ heap' = DeleteAllThroughputFields(heap, ts)
                /\ sent' = [sent EXCEPT !["createTable"] =
                             [i \in DOMAIN ts |->
                                [table  |-> ts[i].name,
                                 params |-> Deref(CreateTableParams(ts[i]), heap')]]]
                /\ req' = IssueAll("createTable", NamesOf(ts))
                /\ pc' = "createTable"
    /\ UNCHANGED <<operation, previous, remote, tableNames, described, tables, errors,
                   invoked, runPromise, initPromise, exited>>

ListDestTablesFail ==
    /\ single["listDestTables"] = "pending"
    /\ single' = [single EXCEPT !["listDestTables"] = "failed"]
    /\ errors' = Log("Failed to retrieve tables")
    /\ IF exited THEN UNCHANGED <<pc, initPromise>> ELSE RejectInit("listDestTables")
    /\ UNCHANGED <<operation, previous, remote, memory, req, sent, invoked, runPromise,
                   exited>>

CreateTableOk(t) ==
    /\ SucceedRequest("createTable", t)
    /\ destTables' = destTables \cup {t}
    /\ UNCHANGED <<operation, previous, sourceTables, pitrEnabled, streamEnabled,
                   s3Objects, glueJobs, pc, single, memory, sent, errors,
                   invoked, runPromise, initPromise, exited>>

\* CreateTableFail deleting the tables the batch had already created
CreateTableFailRollback(t) ==
    /\ FailRequest("createTable", t, "Failed to create DynamoDB table " \o t)
    /\ destTables' = destTables \ {u \in Names : req["createTable"][u] = "ok"}
    /\ UNCHANGED <<operation, previous, sourceTables, pitrEnabled, streamEnabled,
                   s3Objects, glueJobs, memory, single, sent, invoked,
                   runPromise, exited>>

CreateTableFail(t) ==
    /\ FailRequest("createTable", t, "Failed to create DynamoDB table " \o t)
    /\ UNCHANGED <<operation, previous, remote, memory, single, sent, invoked,
                   runPromise, exited>>

----------------------------------------------------------------------------
(* init: script upload and job registration (index.js:240-340) *)

\* tables as the later stages read them: config with the heap's current
\* nested object
TableIn(i) == [name |-> tables[i].name, config |-> Deref(tables[i].config, heap)]

\* the parameters of the requests of `stage` issued for table `t`
SentParams(stage, t) ==
    {sent[stage][i].params : i \in {j \in DOMAIN sent[stage] : sent[stage][j].table = t}}

GlueScriptStage ==
    /\ pc = "createTable"
    /\ Resumable
    /\ sent' = [sent EXCEPT !["putObject"] =
                 [i \in DOMAIN tables |->
                    [table  |-> tables[i].name,
                     params |-> PutObjectParams(TableIn(i))]]]
    /\ req' = IssueAll("putObject", NamesOf(tables))
    /\ pc' = "putObject"
    /\ UNCHANGED <<operation, previous, remote, single, memory, errors, invoked,
                   runPromise, initPromise, exited>>

PutObjectOk(t) ==
    /\ SucceedRequest("putObject", t)
    /\ s3Objects' = s3Objects \cup SentParams("putObject", t)
    /\ UNCHANGED <<operation, previous, sourceTables, destTables, pitrEnabled,
                   streamEnabled, glueJobs, pc, single, memory, sent, errors,
                   invoked, runPromise, initPromise, exited>>

PutObjectFail(t) ==
    /\ FailRequest("putObject", t, "Failed to upload Glue script for table " \o t)
    /\ UNCHANGED <<operation, previous, remote, memory, single, sent, invoked,
                   runPromise, exited>>

GlueJobStage ==
    /\ pc = "putObject"
    /\ Resumable
    /\ sent' = [sent EXCEPT !["createJob"] =
                 [i \in DOMAIN tables |->
                    [table  |-> tables[i].name,
                     params |-> CreateJobParams(TableIn(i))]]]
    /\ req' = IssueAll("createJob", NamesOf(tables))
    /\ pc' = "createJob"
    /\ UNCHANGED <<operation, previous, remote, single, memory, errors, invoked,
                   runPromise, initPromise, exited>>

CreateJobOk(t) ==
    /\ SucceedRequest("createJob", t)
    /\ glueJobs' = glueJobs \cup SentParams("createJob", t)
    /\ UNCHANGED <<operation, previous, sourceTables, destTables, pitrEnabled,
                   streamEnabled, s3Objects, pc, single, memory, sent, errors,
                   invoked, runPromise, initPromise, exited>>

CreateJobFail(t) ==
    /\ FailRequest("createJob", t, "Failed to Glue job for table " \o t)
    /\ UNCHANGED <<operation, previous, remote, memory, single, sent, invoked,
                   runPromise, exited>>

\* await Promise.all(createJobPromises) resolves and init returns
Finish ==
    /\ pc = "createJob"
    /\ Resumable
    /\ pc' = "done"
    /\ initPromise' = [state |-> "fulfilled", reason |-> ""]
    /\ UNCHANGED <<operation, previous, remote, single, req, memory, sent, errors,
                   invoked, runPromise, exited>>

\* Node.js 15 and later end the process on an unhandled rejection; 14 warns
ProcessExit ==
    /\ ~exited
    /\ ~Resumable
    /\ UnhandledRejection
    /\ exited' = TRUE
    /\ UNCHANGED <<operation, previous, remote, pc, single, req, memory, sent, errors,
                   invoked, runPromise, initPromise>>

----------------------------------------------------------------------------

Next ==
    \/ RunInit
    \/ RunInherited
    \/ RunInvalid
    \/ AssumeRoleOk
    \/ AssumeRoleFail
    \/ ListTablesOk
    \/ ListTablesFail
    \/ \E t \in Names : DescribeTableOk(t)
    \/ \E t \in Names : DescribeTableFail(t)
    \/ EnablePitrStage
    \/ \E t \in Names : UpdateContinuousBackupsOk(t)
    \/ \E t \in Names : UpdateContinuousBackupsFail(t)
    \/ EnableStreamsStage
    \/ \E t \in Names : UpdateTableOk(t)
    \/ \E t \in Names : UpdateTableFail(t)
    \/ ListDestTablesStage
    \/ ListDestTablesOk
    \/ ListDestTablesFail
    \/ \E t \in Names : CreateTableOk(t)
    \/ \E t \in Names : CreateTableFail(t)
    \/ GlueScriptStage
    \/ \E t \in Names : PutObjectOk(t)
    \/ \E t \in Names : PutObjectFail(t)
    \/ GlueJobStage
    \/ \E t \in Names : CreateJobOk(t)
    \/ \E t \in Names : CreateJobFail(t)
    \/ Finish
    \/ ProcessExit

Spec == Init /\ [][Next]_vars

----------------------------------------------------------------------------
(* A second run: the program is started again (index.js:361) once the      *)
(* first process has ended, against the accounts as the first run left     *)
(* them.  Nothing in memory survives; the accounts do.                     *)

\* no request of the process is in flight
NothingPending ==
    /\ \A c \in Singles : single[c] # "pending"
    /\ \A s \in Stages : Pending(s) = {}

\* the process has come to its end
ProcessEnded ==
    /\ pc \in {"done", "failed", "idle"} \/ exited
    /\ NothingPending

\* the run got past await Promise.all(createTablePromises)
CompletedCreate ==
    /\ single["listDestTables"] = "ok"
    /\ PromiseAll("createTable") = "fulfilled"

Restart ==
    /\ ~previous.ran
    /\ ProcessEnded
    /\ previous' = [ran |-> TRUE,
                    completedCreate |-> CompletedCreate,
                    created |-> {t \in Names : req["createTable"][t] = "ok"}]
    /\ pc' = "start"
    /\ single' = [c \in Singles |-> "none"]
    /\ req' = [s \in Stages |-> [t \in Names |-> "none"]]
    /\ tableNames' = <<>>
    /\ described' = EmptyMap
    /\ tables' = <<>>
    /\ heap' = EmptyMap
    /\ destTableNames' = <<>>
    /\ sent' = [s \in {"createTable", "putObject", "createJob"} |-> <<>>]
    /\ errors' = {}
    /\ invoked' = "none"
    /\ runPromise' = "none"
    /\ initPromise' = [state |-> "none", reason |-> ""]
    /\ exited' = FALSE
    /\ UNCHANGED <<operation, remote>>

NextRerun ==
    \/ Next
    \/ Restart

\* the inputs of the two-run behaviours: which requests a run issues does
\* not depend on the shape of a description, so one shape is used
InitRerun ==
    /\ Init
    /\ \A t \in DOMAIN sourceTables : sourceTables[t] = "provisioned"

SpecRerun == InitRerun /\ [][NextRerun]_vars

----------------------------------------------------------------------------
(* Properties *)

StageOrder == <<"describeTable", "updateContinuousBackups", "updateTable",
                "createTable", "putObject", "createJob">>

RemoteCallIssued ==
    \/ \E c \in Singles : single[c] # "none"
    \/ \E s \in Stages : Issued(s) # {}

\* the description of table t as the source account returned it
Fetched(t) ==
    SourceFields(t, sourceTables[t])
      @@ [ProvisionedThroughput |-> SourceThroughput(sourceTables[t])]

\* C1: every per-table stage of init is followed by a barrier: no request of
\* a stage is issued while a request of the preceding stage is still pending;
\* in particular no createJob while a putObject is outstanding.
C1_StageBarrier ==
    \A i \in 1..(Len(StageOrder) - 1) :
        Pending(StageOrder[i]) # {} => Issued(StageOrder[i + 1]) = {}

\* C2: when one per-table request of a stage fails, no request of any later
\* stage is issued and the run ends in failure.
C2_FailureAborts ==
    /\ \A i \in 1..Len(StageOrder) : \A j \in 1..Len(StageOrder) :
          (i < j /\ \E t \in Names : req[StageOrder[i]][t] = "failed")
             => Issued(StageOrder[j]) = {}
    /\ (\E s \in Stages : \E t \in Names : req[s][t] = "failed")
          => initPromise.state # "fulfilled"

\* the fields the creation request must not carry
ServerAssignedFields ==
    {"CreationDateTime", "ItemCount", "LastDecreaseDateTime",
     "NumberOfDecreasesToday", "LatestStreamArn", "LatestStreamLabel",
     "TableArn", "TableId", "TableSizeBytes", "TableStatus"}

ThroughputDecreaseCounters == {"LastDecreaseDateTime", "NumberOfDecreasesToday"}

\* C3: the request built for createTable carries none of the server-assigned
\* fields, at top level or inside ProvisionedThroughput, and carries every
\* other field of the fetched schema with its value unchanged.
C3_CreateRequestFiltered ==
    \A i \in DOMAIN sent["createTable"] :
        LET r == sent["createTable"][i].params
            f == Fetched(sent["createTable"][i].table)
        IN  /\ DOMAIN r \cap ServerAssignedFields = {}
            /\ DOMAIN r["ProvisionedThroughput"] \cap ThroughputDecreaseCounters = {}
            /\ \A k \in DOMAIN f \ ServerAssignedFields :
                  /\ k \in DOMAIN r
                  /\ k # "ProvisionedThroughput" => r[k] = f[k]
                  /\ k = "ProvisionedThroughput" =>
                        \A g \in DOMAIN f[k] \ ThroughputDecreaseCounters :
                            g \in DOMAIN r[k] /\ r[k][g] = f[k][g]

\* a createTable request was issued for a table with stream identifiers and
\* both throughput-decrease counters
C3_Witness ==
    \E i \in DOMAIN sent["createTable"] :
        /\ sourceTables[sent["createTable"][i].table] = "streamed"
        /\ "StreamSpecification" \in DOMAIN sent["createTable"][i].params

\* C4: once the creation stage is reached, a createTable request is issued
\* for source table T iff T is not an exact member of the destination
\* listing, and at most one is issued per table.
C4_CreateIffNotListed ==
    single["listDestTables"] = "ok" =>
        /\ \A t \in DOMAIN sourceTables :
              (\E i \in DOMAIN sent["createTable"] : sent["createTable"][i].table = t)
                 <=> t \notin (destTables \ {u \in Names : req["createTable"][u] = "ok"})
        /\ \A i, j \in DOMAIN sent["createTable"] :
              sent["createTable"][i].table = sent["createTable"][j].table => i = j
        /\ \A t \in Names :
              req["createTable"][t] # "none"
                 <=> \E i \in DOMAIN sent["createTable"] : sent["createTable"][i].table = t

\* Orders is created although orders is listed, and orders itself is skipped
C4_Witness ==
    /\ single["listDestTables"] = "ok"
    /\ "orders" \in Range(destTableNames)
    /\ req["createTable"]["Orders"] # "none"
    /\ "orders" \in DOMAIN sourceTables
    /\ req["createTable"]["orders"] = "none"

RegisteredOperations == {"init"}

\* C5: for every operation name that is not registered, run logs an error,
\* invokes no procedure and issues no remote call.
C5_UnregisteredNoAction ==
    (operation \notin RegisteredOperations /\ pc # "start") =>
        /\ invoked = "none"
        /\ errors # {}
        /\ ~RemoteCallIssued

C6_SpecType(type) ==
    IF type = "N" THEN "long"
    ELSE IF type = "S" THEN "string"
    ELSE IF type = "BOOL" THEN "boolean"
    ELSE "string"

C6_Entry(a) ==
    "(\"Item." \o a.AttributeName \o "." \o a.AttributeType
       \o "\", \"string\", \"" \o a.AttributeName \o "\", \""
       \o C6_SpecType(a.AttributeType) \o "\")"

RECURSIVE C6_List(_)
C6_List(defs) ==
    IF defs = <<>> THEN ""
    ELSE C6_Entry(Head(defs))
           \o (IF Tail(defs) = <<>> THEN "" ELSE "," \o C6_List(Tail(defs)))

\* C6: the mapping list rendered into a table's script holds, for each
\* attribute definition in order, exactly the entry
\* ("Item.<name>.<type>", "string", "<name>", "<glueType>") with N -> long,
\* S -> string, BOOL -> boolean and any other type -> string, and nothing else.
C6_MappingList ==
    \A i \in DOMAIN sent["putObject"] :
        sent["putObject"][i].params.Body.MAPPINGS
           = C6_List(Fetched(sent["putObject"][i].table).AttributeDefinitions)

\* scripts were rendered for a table with N and S attributes and for one
\* with a BOOL attribute and one of another type
C6_Witness ==
    /\ \E i \in DOMAIN sent["putObject"] :
          sourceTables[sent["putObject"][i].table] = "streamed"
    /\ \E i \in DOMAIN sent["putObject"] :
          sourceTables[sent["putObject"][i].table] = "provisioned"

\* C7: when the role-assumption call fails, init fails with that error and
\* no other remote call is ever issued.
C7_AssumeRoleFailureStops ==
    single["assumeRole"] = "failed" =>
        /\ initPromise = [state |-> "rejected", reason |-> "assumeRole"]
        /\ single["listTables"] = "none"
        /\ single["listDestTables"] = "none"
        /\ \A s \in Stages : Issued(s) = {}

C7_Witness ==
    /\ single["assumeRole"] = "failed"
    /\ invoked = "init"

\* C8: nothing is compensated: a remote effect of a request that succeeded
\* (PITR enabled, stream enabled, table created, script uploaded, job
\* registered) is never undone in any later step of the run.
C8_NoRollback ==
    [][/\ destTables \subseteq destTables'
       /\ pitrEnabled \subseteq pitrEnabled'
       /\ streamEnabled \subseteq streamEnabled'
       /\ s3Objects \subseteq s3Objects'
       /\ glueJobs \subseteq glueJobs']_vars

\* one createTable of the batch failed after another had created its table
C8_Witness ==
    \E t, u \in Names :
        /\ req["createTable"][t] = "failed"
        /\ req["createTable"][u] = "ok"
        /\ u \in destTables
        /\ pc = "failed"

\* C9: the script of table T is uploaded under key glue-script-T.py in the
\* script bucket, T's job is named ddb-job-T and its script location is that
\* bucket and key; distinct tables share neither a key nor a job name.
C9_ArtifactNames ==
    /\ \A i \in DOMAIN sent["putObject"] :
          LET t == sent["putObject"][i].table
              p == sent["putObject"][i].params
          IN  /\ p.Key = "glue-script-" \o t \o ".py"
              /\ p.Bucket = options.glue_bucket
              /\ \A j \in DOMAIN sent["putObject"] :
                    sent["putObject"][j].params.Key = p.Key
                       => sent["putObject"][j].table = t
    /\ \A i \in DOMAIN sent["createJob"] :
          LET t == sent["createJob"][i].table
              p == sent["createJob"][i].params
          IN  /\ p.Name = "ddb-job-" \o t
              /\ \A j \in DOMAIN sent["createJob"] :
                    sent["createJob"][j].params.Name = p.Name
                       => sent["createJob"][j].table = t
              /\ \E k \in DOMAIN sent["putObject"] :
                    /\ sent["putObject"][k].table = t
                    /\ p.Command.ScriptLocation =
                          "s3://" \o sent["putObject"][k].params.Bucket
                             \o "/" \o sent["putObject"][k].params.Key

\* scripts and jobs were issued for two tables whose names differ only in case
C9_Witness ==
    /\ Len(sent["createJob"]) = 2
    /\ Len(sent["putObject"]) = 2
    /\ {sent["createJob"][i].table : i \in DOMAIN sent["createJob"]}
          = {"Orders", "orders"}

\* C10: once the describe stage has completed, no later stage changes any
\* field of a table's stored schema, at any depth: every stage reads the
\* schema as it was fetched.
C10_SchemaImmutable ==
    \A i \in DOMAIN tables :
        Deref(tables[i].config, heap) = Fetched(tables[i].name)

RepeatedStages == {"updateContinuousBackups", "updateTable", "putObject",
                   "createJob"}

\* C11: in a second run against an unchanged source account, after a first
\* run that completed the table-creation stage and whose tables the
\* destination lists, no createTable request is issued, while one
\* updateContinuousBackups, updateTable, putObject and createJob request is
\* still issued for every source table.
C11_SecondRunSkipsOnlyCreate ==
    (previous.ran /\ previous.completedCreate) =>
        /\ Issued("createTable") = {}
        /\ sent["createTable"] = <<>>
        /\ \A s \in RepeatedStages : Issued(s) \in {{}, DOMAIN sourceTables}
        /\ pc \in {"createJob", "done"} =>
              /\ \A s \in RepeatedStages : Issued(s) = DOMAIN sourceTables
              /\ \A s \in {"putObject", "createJob"} :
                    \A t \in DOMAIN sourceTables :
                        Cardinality({i \in DOMAIN sent[s] : sent[s][i].table = t}) = 1

\* the second run has finished, after a first run that created two tables
C11_Witness ==
    /\ previous.ran
    /\ previous.completedCreate
    /\ Cardinality(previous.created) = 2
    /\ previous.created = DOMAIN sourceTables
    /\ single["listDestTables"] = "ok"
    /\ pc = "done"

\* C12: the promise returned by run (and so by the handler) settles only
\* after the dispatched init has finished, with no request of the run pending
\* or still to be issued, and a failure of init reaches the caller as a
\* rejection of that promise.
C12_RunSettlesAfterInit ==
    (invoked = "init" /\ runPromise \in {"fulfilled", "rejected"}) =>
        /\ initPromise.state \in {"fulfilled", "rejected"}
        /\ NothingPending
        /\ initPromise.state = "rejected" => runPromise = "rejected"

====
